---- MODULE Spec2Model ----
(***************************************************************************)
(* Verification model of the notebooks repository.                         *)
(*                                                                         *)
(*   Spec        the scalar autodiff engine (class Value of MLPBasics):    *)
(*               expression construction and backward()                    *)
(*   SpecNGram   the n-gram language model: counts and probabilities       *)
(*   SpecTok     the character-level Tokenizer: encode and decode          *)
(*   SpecCausal  UpperTriLinear / CausalLinearBlock under training steps   *)
(*   SpecGen     LinearLM.generate                                         *)
(*   SpecStiefel rstiefel: the initializer and newton_schulz               *)
(*   SpecDataset build_dataset of the RNN / LSTM notebooks                 *)
(*   SpecTrain   the training loop of MLPBasics                            *)
(*   SpecOps     Spec with Value.sigmoid and ** with a Value exponent      *)
(*                                                                         *)
(* Floating-point numbers are modelled by integers.  The math library      *)
(* functions (sin, cos, exp) are modelled by their values rounded to the   *)
(* nearest integer.                                                        *)
(***************************************************************************)
EXTENDS Integers, Sequences, FiniteSets, TLC

(***************************************************************************)
(* Bounds of the model.                                                    *)
(***************************************************************************)
MaxNodes == 3
MaxCalls == 1
MaxSentences == 2
MaxSentenceLen == 2
MaxOrder == 3
MaxDataLen == 3
MaxTextLen == 3
ContextSize == 2
MaxPrompt == 3
MaxNewTokens == 3
MaxRank == 3
MaxExtent == 2
MaxSteps == 2
MaxWords == 2
MaxWordLen == 2
MaxEpochs == 2

LeafVals == {-1, 0, 2}
Nums == {-1}
Degs == {0, 2}

VARIABLES
    nodes,      \* the Value objects, in creation order (index = identity)
    pc,         \* "idle", or the position inside Value.backward
    root,       \* backward: self
    topo,       \* backward: the local list topo
    visited,    \* backward: the local set visited
    k,          \* backward: number of entries of reversed(topo) still to visit
    ran,        \* history: the _backward calls made, with out.grad at the call
    seeded,     \* history: the grad of every node when backward() was entered
    calls,      \* number of backward() calls made so far
    ret,        \* the node the last operation returned (0: None, or it raised)
    exc,        \* the exception the last operation raised
    dropped     \* the nodes the last operation created and kept no reference to

advars == <<nodes, pc, root, topo, visited, k, ran, seeded, calls, ret, exc, dropped>>

VARIABLES
    ngram,      \* the n-gram model: n, x_train, vocab, counts, logprobs
    ngpc        \* "new", or which code has built the model: "cell", "fit"

ngvars == <<ngram, ngpc>>

VARIABLES
    dataset,    \* the corpus, a string
    tokenizer,  \* the Tokenizer: vocab, character_to_index, index_to_character
    text,       \* encode: the argument
    tokens,     \* encode: the result
    decoded,    \* decode: the result
    tkpc        \* "new", "ready", "encoded", "decoded", "keyerror"

tkvars == <<dataset, tokenizer, text, tokens, decoded, tkpc>>

VARIABLES
    weight,     \* triu_linear.weight, (out_features, in_features)
    bias,       \* triu_linear.bias
    mixer,      \* channel_mixer: weight and bias, n_embd = 1
    x1, x2,     \* two inputs of CausalLinearBlock.forward, (T, 1) each
    y1, y2,     \* the outputs for x1 and x2
    clpc        \* "idle", "forwarded"

clvars == <<weight, bias, mixer, x1, x2, y1, y2, clpc>>

VARIABLES
    prompt,          \* generate: the argument idx, one row
    max_new_tokens,  \* generate: the argument max_new_tokens
    idx,             \* generate: the local idx
    it,              \* generate: iterations completed
    fed,             \* the longest idx_cond passed to forward
    gnpc             \* "loop", "returned", "assert", "indexerror"

gnvars == <<prompt, max_new_tokens, idx, it, fed, gnpc>>

VARIABLES
    closure,    \* rstiefel: the variables the initializer captures (gain, n_steps)
    rng,        \* the state of numpy's global random generator
    tmp,        \* the array object passed to the initializer (its argument a)
    init_w,     \* the object the initializer returned (the caller's w)
    ns_runs,    \* history: newton_schulz calls made by the current initializer call
    rspc        \* "ready", "array", "returned", "ValueError"

rsvars == <<closure, rng, tmp, init_w, ns_runs, rspc>>

VARIABLES
    words,            \* the names read from the file, a list of strings
    chars,            \* the vocabulary: '>', the sorted characters, '<'
    s_to_i,           \* the lookup table from character to index
    max_word_length,  \* word_lengths.max()
    X_list,           \* build_dataset: the local list X
    splits,           \* build_dataset: the result (Xtr, Xdev, Xte)
    bdpc              \* "read", "vocab", "built"

bdvars == <<words, chars, s_to_i, max_word_length, X_list, splits, bdpc>>

VARIABLES
    params,     \* n.parameters(): the parameter nodes, in order
    xs, ys,     \* the training data
    loss,       \* the node the name loss is bound to (0: none)
    epoch,      \* the loop variable of the training loop
    log,        \* history: the steps of the current iteration, in order
    trpc        \* the step of the loop body to run next

trvars == <<params, xs, ys, loss, epoch, log, trpc>>

vars == <<advars, ngvars, tkvars, clvars, gnvars, rsvars, bdvars, trvars>>

(***************************************************************************)
(* Helpers                                                                 *)
(***************************************************************************)
Range(s) == {s[i] : i \in DOMAIN s}

Abs(x) == IF x < 0 THEN -x ELSE x

Sign(x) == IF x < 0 THEN -1 ELSE IF x > 0 THEN 1 ELSE 0

RECURSIVE IntPow(_, _)
IntPow(b, e) == IF e <= 0 THEN 1 ELSE b * IntPow(b, e - 1)

\* a / b rounded to the nearest integer (b > 0)
RoundDiv(a, b) == IF a >= 0 THEN (2 * a + b) \div (2 * b)
                            ELSE -((2 * (-a) + b) \div (2 * b))

Min(S) == CHOOSE x \in S : \A y \in S : x <= y
Max(S) == CHOOSE x \in S : \A y \in S : x >= y

RECURSIVE Ascending(_)
Ascending(S) == IF S = {} THEN <<>> ELSE <<Min(S)>> \o Ascending(S \ {Min(S)})

RECURSIVE Descending(_)
Descending(S) == IF S = {} THEN <<>> ELSE <<Max(S)>> \o Descending(S \ {Max(S)})

(***************************************************************************)
(* The math library, on integers.                                          *)
(***************************************************************************)
\* math.exp raises OverflowError for large arguments
MathExpDefined(x) == x <= 8

MathExp(x) == IF x < 0 THEN 0 ELSE IntPow(3, x)

MathSin(x) == Sign(x) * (CASE Abs(x) % 6 \in {1, 2} -> 1
                           [] Abs(x) % 6 \in {4, 5} -> -1
                           [] OTHER -> 0)

MathCos(x) == CASE Abs(x) % 6 \in {0, 1} -> 1
                [] Abs(x) % 6 \in {3, 4} -> -1
                [] OTHER -> 0

\* x ** e raises ZeroDivisionError for 0 to a negative power
PowRaises(x, e) == x = 0 /\ e < 0

\* c * x ** e, where the product is an integer
ScaledPow(c, x, e) == IF e >= 0 THEN c * IntPow(x, e)
                      ELSE IF c = 0 THEN 0
                      ELSE c \div IntPow(x, -e)

(***************************************************************************)
(* class Value                                                             *)
(***************************************************************************)
\* Value.__init__ that drops _children
ValueWithoutChildren(data, children, op) ==
    [data  |-> data,
     grad  |-> 0,
     prev  |-> {},
     op    |-> op,
     rule  |-> "none",
     self  |-> 0,
     other |-> 0,
     deg   |-> 0,
     loc   |-> 0]

\* Value.__init__, with _backward = lambda: None
Value(data, children, op) ==
    [data  |-> data,
     grad  |-> 0,
     prev  |-> Range(children),
     op    |-> op,
     rule  |-> "none",
     self  |-> 0,
     other |-> 0,
     deg   |-> 0,
     loc   |-> 0]

\* out._backward = _backward: the closure and the variables it captures
WithBackward(out, rule, self, other, deg, loc) ==
    [out EXCEPT !.rule = rule, !.self = self, !.other = other,
                !.deg = deg, !.loc = loc]

Ids == 1..Len(nodes)

Idle == pc = "idle"

Room(n) == Len(nodes) + n <= MaxNodes

\* the engine shares no state with the other notebooks
OutsideValue == UNCHANGED <<ngvars, tkvars, clvars, gnvars, rsvars, bdvars, trvars>>

NoException == [type |-> "", op |-> "", operand |-> ""]

\* return out
Returns(out) ==
    /\ ret' = out
    /\ exc' = NoException
    /\ dropped' = <<>>

\* the call ends in an exception
Raises(type, op, operand) ==
    /\ ret' = 0
    /\ exc' = [type |-> type, op |-> op, operand |-> operand]
    /\ dropped' = <<>>

BackwardVarsUnchanged ==
    /\ UNCHANGED <<pc, root, topo, visited, k, ran, seeded, calls>>
    /\ OutsideValue

\* Value(d): a leaf
NewValue(d) ==
    /\ Idle /\ Room(1)
    /\ nodes' = Append(nodes, Value(d, <<>>, ""))
    /\ Returns(Len(nodes'))
    /\ BackwardVarsUnchanged

\* a node that is among its own children
AddOutOwnChild(ns, s, o) ==
    WithBackward(Value(ns[s].data + ns[o].data, <<s, o, Len(ns) + 1>>, "+"), "add", s, o, 0, 0)

AddOut(ns, s, o) ==
    WithBackward(Value(ns[s].data + ns[o].data, <<s, o>>, "+"), "add", s, o, 0, 0)

\* self + other, other a Value
Add(s, o) ==
    /\ Idle /\ Room(1)
    /\ nodes' = Append(nodes, AddOut(nodes, s, o))
    /\ Returns(Len(nodes'))
    /\ BackwardVarsUnchanged

\* self + other, other a plain number: other = Value(other)
AddNum(s, c) ==
    /\ Idle /\ Room(2)
    /\ LET ns == Append(nodes, Value(c, <<>>, ""))
       IN nodes' = Append(ns, AddOut(ns, s, Len(ns)))
    /\ Returns(Len(nodes'))
    /\ BackwardVarsUnchanged

MulOut(ns, s, o) ==
    WithBackward(Value(ns[s].data * ns[o].data, <<s, o>>, "*"), "mul", s, o, 0, 0)

\* self * other, other a Value
Mul(s, o) ==
    /\ Idle /\ Room(1)
    /\ nodes' = Append(nodes, MulOut(nodes, s, o))
    /\ Returns(Len(nodes'))
    /\ BackwardVarsUnchanged

\* self * other, other a plain number (also -self, which is self * -1)
MulNum(s, c) ==
    /\ Idle /\ Room(2)
    /\ LET ns == Append(nodes, Value(c, <<>>, ""))
       IN nodes' = Append(ns, MulOut(ns, s, Len(ns)))
    /\ Returns(Len(nodes'))
    /\ BackwardVarsUnchanged

PowOut(ns, s, deg) ==
    WithBackward(Value(ScaledPow(1, ns[s].data, deg), <<s>>, "**"), "pow", s, 0, deg, 0)

\* self ** deg
Pow(s, deg) ==
    /\ Idle /\ Room(1)
    /\ ~PowRaises(nodes[s].data, deg)
    /\ nodes' = Append(nodes, PowOut(nodes, s, deg))
    /\ Returns(Len(nodes'))
    /\ BackwardVarsUnchanged

ReluOut(ns, s) ==
    LET x == ns[s].data
        t == IF x > 0 THEN x ELSE 0
    IN WithBackward(Value(t, <<s>>, "relu"), "relu", s, 0, 0, x)

Relu(s) ==
    /\ Idle /\ Room(1)
    /\ nodes' = Append(nodes, ReluOut(nodes, s))
    /\ Returns(Len(nodes'))
    /\ BackwardVarsUnchanged

TanhOut(ns, s) ==
    LET n == ns[s].data
        t == RoundDiv(MathExp(2 * n) - 1, MathExp(2 * n) + 1)
    IN WithBackward(Value(t, <<s>>, "tanh"), "tanh", s, 0, 0, t)

Tanh(s) ==
    /\ Idle /\ Room(1)
    /\ MathExpDefined(2 * nodes[s].data)
    /\ nodes' = Append(nodes, TanhOut(nodes, s))
    /\ Returns(Len(nodes'))
    /\ BackwardVarsUnchanged

SinOut(ns, s) ==
    LET x == ns[s].data
        t == MathSin(x)
    IN WithBackward(Value(t, <<s>>, "sin"), "sin", s, 0, 0, x)

Sin(s) ==
    /\ Idle /\ Room(1)
    /\ nodes' = Append(nodes, SinOut(nodes, s))
    /\ Returns(Len(nodes'))
    /\ BackwardVarsUnchanged

CosOut(ns, s) ==
    LET x == ns[s].data
        t == MathCos(x)
    IN WithBackward(Value(t, <<s>>, "cos"), "cos", s, 0, 0, x)

Cos(s) ==
    /\ Idle /\ Room(1)
    /\ nodes' = Append(nodes, CosOut(nodes, s))
    /\ Returns(Len(nodes'))
    /\ BackwardVarsUnchanged

ExpOut(ns, s) ==
    LET x == ns[s].data
        t == MathExp(x)
    IN WithBackward(Value(t, <<s>>, "exp"), "exp", s, 0, 0, t)

Exp(s) ==
    /\ Idle /\ Room(1)
    /\ MathExpDefined(nodes[s].data)
    /\ nodes' = Append(nodes, ExpOut(nodes, s))
    /\ Returns(Len(nodes'))
    /\ BackwardVarsUnchanged

(***************************************************************************)
(* Value.backward                                                          *)
(***************************************************************************)
\* "for child in v._prev": a set is iterated in an order the program does
\* not control; desc is the set of nodes whose operands come in descending order
Children(ns, v, desc) == IF v \in desc THEN Descending(ns[v].prev)
                                      ELSE Ascending(ns[v].prev)

RECURSIVE build_topo(_, _, _, _)
RECURSIVE build_children(_, _, _, _)

\* build_topo that appends v before its children
build_topo_preorder(ns, v, st, desc) ==
    IF v \in st.visited THEN st
    ELSE LET st1 == [st EXCEPT !.visited = @ \cup {v}, !.topo = Append(@, v)]
         IN build_children(ns, Children(ns, v, desc), st1, desc)

build_topo(ns, v, st, desc) ==
    IF v \in st.visited THEN st
    ELSE LET st1 == [st EXCEPT !.visited = @ \cup {v}]
             st2 == build_children(ns, Children(ns, v, desc), st1, desc)
         IN [st2 EXCEPT !.topo = Append(@, v)]

build_children(ns, cs, st, desc) ==
    IF cs = <<>> THEN st
    ELSE build_children(ns, Tail(cs), build_topo(ns, Head(cs), st, desc), desc)

\* p.grad = amount
Overwrite(ns, p, amount) == [ns EXCEPT ![p].grad = amount]

\* p.grad += amount
Accumulate(ns, p, amount) == [ns EXCEPT ![p].grad = @ + amount]

\* the closures _backward of the operators; out is the node that owns the closure
\* a rule that walks out._prev instead of the captured operands
AddBackwardOverPrev(ns, out) ==
    LET n1 == Accumulate(ns, ns[out].self, 1 * ns[out].grad)
    IN IF ns[out].other \in ns[out].prev \ {ns[out].self}
       THEN Accumulate(n1, n1[out].other, 1 * n1[out].grad)
       ELSE n1

AddBackward(ns, out) ==
    LET n1 == Accumulate(ns, ns[out].self, 1 * ns[out].grad)
    IN Accumulate(n1, n1[out].other, 1 * n1[out].grad)

\* a rule that scales each operand's grad by that operand's own data
MulBackwardOwnData(ns, out) ==
    LET s  == ns[out].self
        o  == ns[out].other
        n1 == Accumulate(ns, s, ns[s].data * ns[out].grad)
    IN Accumulate(n1, o, n1[o].data * n1[out].grad)

MulBackward(ns, out) ==
    LET s  == ns[out].self
        o  == ns[out].other
        n1 == Accumulate(ns, s, ns[o].data * ns[out].grad)
    IN Accumulate(n1, o, n1[s].data * n1[out].grad)

PowBackwardRaises(ns, out) == PowRaises(ns[ns[out].self].data, ns[out].deg - 1)

PowBackward(ns, out) ==
    LET s == ns[out].self
    IN Accumulate(ns, s, ScaledPow(ns[out].deg, ns[s].data, ns[out].deg - 1) * ns[out].grad)

\* a rule that tests x >= 0
ReluBackwardFromZero(ns, out) ==
    Accumulate(ns, ns[out].self, IF ns[out].loc >= 0 THEN 1 * ns[out].grad ELSE 0)

ReluBackward(ns, out) ==
    Accumulate(ns, ns[out].self, IF ns[out].loc > 0 THEN 1 * ns[out].grad ELSE 0)

TanhBackward(ns, out) ==
    Accumulate(ns, ns[out].self, (1 - ns[out].loc * ns[out].loc) * ns[out].grad)

SinBackward(ns, out) ==
    Accumulate(ns, ns[out].self, MathCos(ns[out].loc) * ns[out].grad)

CosBackward(ns, out) ==
    Accumulate(ns, ns[out].self, (-MathSin(ns[out].loc)) * ns[out].grad)

ExpBackward(ns, out) ==
    Accumulate(ns, ns[out].self, ns[out].loc * ns[out].grad)

BackwardRaises(ns, out) == ns[out].rule = "pow" /\ PowBackwardRaises(ns, out)

\* node._backward()
RunBackward(ns, out) ==
    CASE ns[out].rule = "add"  -> AddBackward(ns, out)
      [] ns[out].rule = "mul"  -> MulBackward(ns, out)
      [] ns[out].rule = "pow"  -> PowBackward(ns, out)
      [] ns[out].rule = "relu" -> ReluBackward(ns, out)
      [] ns[out].rule = "tanh" -> TanhBackward(ns, out)
      [] ns[out].rule = "sin"  -> SinBackward(ns, out)
      [] ns[out].rule = "cos"  -> CosBackward(ns, out)
      [] ns[out].rule = "exp"  -> ExpBackward(ns, out)
      [] OTHER -> ns

\* topo iterated front to back
ForwardOrder(tp, left) == tp[Len(tp) - left + 1]

\* reversed(topo): the entry visited when `left` entries are still to visit
ReversedOrder(tp, left) == tp[left]

\* self.data = 1.0
SeedData(ns, r) == [ns EXCEPT ![r].data = 1]

\* self.grad = 1.0
SeedGrad(ns, r) == [ns EXCEPT ![r].grad = 1]

\* backward(): build_topo(self); self.grad = 1.0
BackwardEnter(r) ==
    /\ Idle
    /\ calls < MaxCalls
    /\ \E desc \in SUBSET {v \in Ids : Cardinality(nodes[v].prev) > 1} :
         LET st == build_topo(nodes, r, [visited |-> {}, topo |-> <<>>], desc)
         IN /\ topo' = st.topo
            /\ visited' = st.visited
            /\ k' = Len(st.topo)
    /\ seeded' = [i \in Ids |-> nodes[i].grad]
    /\ nodes' = SeedGrad(nodes, r)
    /\ root' = r
    /\ ran' = <<>>
    /\ calls' = calls + 1
    /\ pc' = "loop"
    /\ UNCHANGED <<ret, exc, dropped>>
    /\ OutsideValue

\* for node in reversed(topo): node._backward()
BackwardLoop ==
    /\ pc = "loop"
    /\ k > 0
    /\ LET node == ReversedOrder(topo, k)
       IN /\ IF BackwardRaises(nodes, node)
             THEN /\ pc' = "raised"
                  /\ UNCHANGED <<nodes, k>>
             ELSE /\ nodes' = RunBackward(nodes, node)
                  /\ k' = k - 1
                  /\ pc' = IF k = 1 THEN "done" ELSE "loop"
          /\ ran' = Append(ran, [node |-> node, grad |-> nodes[node].grad])
    /\ UNCHANGED <<root, topo, visited, seeded, calls>>
    /\ UNCHANGED <<ret, exc, dropped>>
    /\ OutsideValue

\* backward() returns, or its exception reaches the caller
BackwardLeave ==
    /\ pc \in {"done", "raised"}
    /\ pc' = "idle"
    /\ root' = 0
    /\ topo' = <<>>
    /\ visited' = {}
    /\ k' = 0
    /\ ran' = <<>>
    /\ seeded' = <<>>
    /\ UNCHANGED <<nodes, calls>>
    /\ UNCHANGED <<ret, exc, dropped>>
    /\ OutsideValue

ValueInit ==
    /\ nodes = <<>>
    /\ pc = "idle"
    /\ root = 0
    /\ topo = <<>>
    /\ visited = {}
    /\ k = 0
    /\ ran = <<>>
    /\ seeded = <<>>
    /\ calls = 0
    /\ ret = 0
    /\ exc = NoException
    /\ dropped = <<>>

ValueNext ==
    \/ \E d \in LeafVals : NewValue(d)
    \/ \E s \in Ids, o \in Ids : Add(s, o)
    \/ \E s \in Ids, c \in Nums : AddNum(s, c)
    \/ \E s \in Ids, o \in Ids : Mul(s, o)
    \/ \E s \in Ids, c \in Nums : MulNum(s, c)
    \/ \E s \in Ids, d \in Degs : Pow(s, d)
    \/ \E s \in Ids : Relu(s)
    \/ \E s \in Ids : Tanh(s)
    \/ \E s \in Ids : Sin(s)
    \/ \E s \in Ids : Cos(s)
    \/ \E s \in Ids : Exp(s)
    \/ \E r \in Ids : BackwardEnter(r)
    \/ BackwardLoop
    \/ BackwardLeave

(***************************************************************************)
(* The n-gram language model                                               *)
(***************************************************************************)
Words == {"a", "b"}

\* the words in sorted order
WordOrder == <<"a", "b">>

\* sorted(list(set(...)))
Sorted(S) == SelectSeq(WordOrder, LAMBDA w : w \in S)

Sentences == UNION {[1..len -> Words] : len \in 0..MaxSentenceLen}

TrainingSets == UNION {[1..cnt -> Sentences] : cnt \in 0..MaxSentences}

\* the set of words of the training sentences
WordsOf(x_train) == UNION {Range(x_train[i]) : i \in DOMAIN x_train}

\* s = ['<S>'] + sentence, without the end symbol
DelimitStartOnly(sentence) == <<"<S>">> \o sentence

\* s = ['<S>'] + sentence + ['<E>']
Delimit(sentence) == <<"<S>">> \o sentence \o <<"<E>">>

\* zip(*[s[ii:] for ii in range(m+1)]): the windows of m+1 words
Windows(s, m) == [i \in 1..(Len(s) - m) |-> SubSeq(s, i, i + m)]

\* counts.get(mgram, 0)
Get(counts, mgram) == IF mgram \in DOMAIN counts THEN counts[mgram] ELSE 0

\* counts[mgram] = counts.get(mgram, 0) + 1
Increment(counts, mgram) ==
    [g \in DOMAIN counts \cup {mgram} |->
        IF g = mgram THEN Get(counts, mgram) + 1 ELSE counts[g]]

\* for jj in zip(...)
RECURSIVE CountWindows(_, _)
CountWindows(counts, ws) ==
    IF ws = <<>> THEN counts
    ELSE CountWindows(Increment(counts, Head(ws)), Tail(ws))

\* for sentence in x_train
RECURSIVE CountSentences(_, _, _)
CountSentences(counts, x_train, m) ==
    IF x_train = <<>> THEN counts
    ELSE CountSentences(CountWindows(counts, Windows(Delimit(Head(x_train)), m)),
                        Tail(x_train), m)

\* for m in range(n), from level m on
RECURSIVE CountLevels(_, _, _, _)
CountLevels(counts, x_train, m, n) ==
    IF m >= n THEN counts
    ELSE CountLevels(CountSentences(counts, x_train, m), x_train, m + 1, n)

RECURSIVE SumCounts(_, _)
SumCounts(counts, keys) ==
    IF keys = {} THEN 0
    ELSE LET g == CHOOSE g \in keys : TRUE
         IN counts[g] + SumCounts(counts, keys \ {g})

\* sum([v for k,v in counts.items() if len(k)==1])
SumUnigrams(counts) == SumCounts(counts, {g \in DOMAIN counts : Len(g) = 1})

\* logprobs[k] = np.log(num) - np.log(den), kept as the fraction num / den
LogProbs(counts) ==
    [g \in DOMAIN counts |->
        IF Len(g) = 1
        THEN [num |-> counts[g], den |-> SumUnigrams(counts)]
        ELSE [num |-> counts[g], den |-> counts[SubSeq(g, 1, Len(g) - 1)]]]

EmptyCounts == [g \in {} |-> 0]

UnkCounts == [g \in {<<"<Unk>">>} |-> 1]

Model(n, x_train, vocab, counts, logprobs) ==
    [n |-> n, x_train |-> x_train, vocab |-> vocab, counts |-> counts,
     logprobs |-> logprobs]

OutsideNGram == UNCHANGED <<advars, tkvars, clvars, gnvars, rsvars, bdvars, trvars>>

\* the notebook cell that builds vocab, counts and logprobs from the corpus
BuildCell ==
    /\ ngpc = "new"
    /\ ngram.x_train # <<>>
    /\ LET counts == CountLevels(EmptyCounts, ngram.x_train, 0, ngram.n)
       IN ngram' = Model(ngram.n, ngram.x_train,
                         <<"<S>", "<E>">> \o Sorted(WordsOf(ngram.x_train)),
                         counts, LogProbs(counts))
    /\ ngpc' = "cell"
    /\ OutsideNGram

\* NGram.fit
Fit ==
    /\ ngpc = "new"
    /\ LET counts == CountLevels(UnkCounts, ngram.x_train, 0, ngram.n)
       IN ngram' = Model(ngram.n, ngram.x_train,
                         <<"<S>", "<E>", "<Unk>">> \o Sorted(WordsOf(ngram.x_train)),
                         counts, LogProbs(counts))
    /\ ngpc' = "fit"
    /\ OutsideNGram

\* no n-gram model
NGramOff ==
    /\ ngram = Model(0, <<>>, <<>>, EmptyCounts, EmptyCounts)
    /\ ngpc = "off"

\* NGram.__init__ / the globals n and dm.train['en']
NGramInit ==
    /\ \E n \in 1..MaxOrder, x_train \in TrainingSets :
          ngram = Model(n, x_train, <<>>, EmptyCounts, EmptyCounts)
    /\ ngpc = "new"

NGramNext ==
    \/ BuildCell
    \/ Fit

(***************************************************************************)
(* The character-level tokenizer                                           *)
(***************************************************************************)
Chars == {"a", "b", "c"}

\* the characters in sorted order
CharOrder == <<"a", "b", "c">>

Strings(maxlen) == UNION {[1..len -> Chars] : len \in 0..maxlen}

\* vocab = sorted(list(set(dataset)))
UniqueCharacters(data) == SelectSeq(CharOrder, LAMBDA c : c \in Range(data))

\* enumerate(vocab): the pairs (i, ch), i from 0
Enumerate(vocab) == [i \in DOMAIN vocab |-> <<i - 1, vocab[i]>>]

\* {ch:i+1 for i,ch in enumerate(self.vocab)}
CharacterToIndexPlusOne(dict, pairs) ==
    [c \in {pairs[j][2] : j \in DOMAIN pairs} |->
        LET j == CHOOSE j \in DOMAIN pairs :
                    /\ pairs[j][2] = c
                    /\ \A j2 \in DOMAIN pairs : j2 > j => pairs[j2][2] # c
        IN pairs[j][1] + 1]

\* {ch:i for i,ch in enumerate(self.vocab)}: a later pair replaces an earlier one
RECURSIVE CharacterToIndex(_, _)
CharacterToIndex(dict, pairs) ==
    IF pairs = <<>> THEN dict
    ELSE LET i  == Head(pairs)[1]
             ch == Head(pairs)[2]
         IN CharacterToIndex([c \in DOMAIN dict \cup {ch} |->
                                 IF c = ch THEN i ELSE dict[c]], Tail(pairs))

\* {i:ch for i,ch in enumerate(self.vocab)}
RECURSIVE IndexToCharacter(_, _)
IndexToCharacter(dict, pairs) ==
    IF pairs = <<>> THEN dict
    ELSE LET i  == Head(pairs)[1]
             ch == Head(pairs)[2]
         IN IndexToCharacter([j \in DOMAIN dict \cup {i} |->
                                 IF j = i THEN ch ELSE dict[j]], Tail(pairs))

EmptyDict == [x \in {} |-> 0]

NoTokenizer == [vocab |-> <<>>, character_to_index |-> EmptyDict,
                index_to_character |-> EmptyDict]

OutsideTokenizer == UNCHANGED <<advars, ngvars, clvars, gnvars, rsvars, bdvars, trvars>>

\* vocab = sorted(list(set(dataset))); tokenizer = Tokenizer(vocab)
NewTokenizer ==
    /\ tkpc = "new"
    /\ LET vocab == UniqueCharacters(dataset)
       IN tokenizer' = [vocab |-> vocab,
                        character_to_index |-> CharacterToIndex(EmptyDict, Enumerate(vocab)),
                        index_to_character |-> IndexToCharacter(EmptyDict, Enumerate(vocab))]
    /\ tkpc' = "ready"
    /\ UNCHANGED <<dataset, text, tokens, decoded>>
    /\ OutsideTokenizer

\* tokenizer.encode(t); a character that is no key raises KeyError
Encode(t) ==
    /\ tkpc = "ready"
    /\ text' = t
    /\ IF \A i \in DOMAIN t : t[i] \in DOMAIN tokenizer.character_to_index
       THEN /\ tokens' = [i \in DOMAIN t |-> tokenizer.character_to_index[t[i]]]
            /\ tkpc' = "encoded"
       ELSE /\ tokens' = <<>>
            /\ tkpc' = "keyerror"
    /\ UNCHANGED <<dataset, tokenizer, decoded>>
    /\ OutsideTokenizer

\* tokenizer.decode(tokens); an index that is no key raises KeyError
Decode ==
    /\ tkpc = "encoded"
    /\ IF \A i \in DOMAIN tokens : tokens[i] \in DOMAIN tokenizer.index_to_character
       THEN /\ decoded' = [i \in DOMAIN tokens |-> tokenizer.index_to_character[tokens[i]]]
            /\ tkpc' = "decoded"
       ELSE /\ decoded' = <<>>
            /\ tkpc' = "keyerror"
    /\ UNCHANGED <<dataset, tokenizer, text, tokens>>
    /\ OutsideTokenizer

\* no tokenizer
TokenizerOff ==
    /\ dataset = <<>>
    /\ tokenizer = NoTokenizer
    /\ text = <<>>
    /\ tokens = <<>>
    /\ decoded = <<>>
    /\ tkpc = "off"

\* the corpus has been read
TokenizerInit ==
    /\ dataset \in Strings(MaxDataLen)
    /\ tokenizer = NoTokenizer
    /\ text = <<>>
    /\ tokens = <<>>
    /\ decoded = <<>>
    /\ tkpc = "new"

TokenizerNext ==
    \/ NewTokenizer
    \/ \E t \in Strings(MaxTextLen) : Encode(t)
    \/ Decode

(***************************************************************************)
(* UpperTriLinear and CausalLinearBlock                                    *)
(*                                                                         *)
(* One batch row and one channel (B = 1, n_embd = 1).  Positions are       *)
(* numbered from 1.  Parameters and activations are small integers.        *)
(***************************************************************************)
Positions == 1..ContextSize

InitialWeights == {0, 1}
Weights == {-1, 0, 1}
Biases == {0, 1}
Activations == {0, 1}
OutputGrads == {-1, 0, 1}

\* torch.triu(torch.ones_like(grad)): ones on and above the diagonal
TriuOnes == [o \in Positions |-> [i \in Positions |-> IF i >= o THEN 1 ELSE 0]]

\* torch.tril(torch.ones_like(grad)): ones on and below the diagonal
TrilOnes == [o \in Positions |-> [i \in Positions |-> IF i <= o THEN 1 ELSE 0]]

\* element-wise product
Hadamard(a, b) == [o \in Positions |-> [i \in Positions |-> a[o][i] * b[o][i]]]

\* torch.tril(self.weight)
Tril(w) == Hadamard(w, TrilOnes)

\* a hook that masks with triu instead of tril
HookTriu(grad) == Hadamard(grad, TriuOnes)

\* the hook registered on weight: lambda grad: grad * torch.tril(torch.ones_like(grad))
Hook(grad) == Hadamard(grad, TrilOnes)

\* F.pad(x, (0, 0, 0, context_size - T), 'constant', 0)
Pad(x) == [i \in Positions |-> IF i <= Len(x) THEN x[i] ELSE 0]

RECURSIVE Dot(_, _, _)
Dot(row, x, i) == IF i = 0 THEN 0 ELSE row[i] * x[i] + Dot(row, x, i - 1)

\* nn.Linear: x A^T + b
Linear(w, b, x) == [o \in Positions |-> Dot(w[o], x, ContextSize) + b[o]]

\* CausalLinearBlock.forward
Forward(w, b, mx, x) ==
    LET T == Len(x)
        y == SubSeq(Linear(w, b, Pad(x)), 1, T)
    IN [t \in 1..T |-> mx.w * y[t] + mx.b]

\* the gradient autograd computes for weight: grad_output^T x
WeightGrad(d, x) == [o \in Positions |-> [i \in Positions |-> d[o] * x[i]]]

\* AdamW: an entry moves against the sign of its gradient; an entry whose
\* gradients are all 0 has zero moment estimates and does not move
AdamW(p, g) == p - Sign(g)

OutsideCausal == UNCHANGED <<advars, ngvars, tkvars, gnvars, rsvars, bdvars, trvars>>

\* the block is called on two inputs of the same length T <= context_size
ForwardPair(a, b) ==
    /\ clpc = "idle"
    /\ x1' = a
    /\ x2' = b
    /\ y1' = Forward(weight, bias, mixer, a)
    /\ y2' = Forward(weight, bias, mixer, b)
    /\ clpc' = "forwarded"
    /\ UNCHANGED <<weight, bias, mixer>>
    /\ OutsideCausal

\* the results are dropped
ForwardDone ==
    /\ clpc = "forwarded"
    /\ x1' = <<>> /\ x2' = <<>> /\ y1' = <<>> /\ y2' = <<>>
    /\ clpc' = "idle"
    /\ UNCHANGED <<weight, bias, mixer>>
    /\ OutsideCausal

\* loss.backward(); optimizer.step(), for output gradient d at input x
TrainStep(d, x) ==
    /\ clpc = "idle"
    /\ LET grad == Hook(WeightGrad(d, x))
           w    == [o \in Positions |-> [i \in Positions |-> AdamW(weight[o][i], grad[o][i])]]
           b    == [o \in Positions |-> AdamW(bias[o], d[o])]
       IN /\ \A o \in Positions : b[o] \in Biases /\ \A i \in Positions : w[o][i] \in Weights
          /\ weight' = w
          /\ bias' = b
    /\ UNCHANGED <<mixer, x1, x2, y1, y2, clpc>>
    /\ OutsideCausal

\* no block
CausalOff ==
    /\ weight = <<>> /\ bias = <<>> /\ mixer = <<>>
    /\ x1 = <<>> /\ x2 = <<>> /\ y1 = <<>> /\ y2 = <<>>
    /\ clpc = "off"

\* CausalLinearBlock.__init__: random parameters, then weight.copy_(tril(weight))
CausalInit ==
    /\ \E w \in [Positions -> [Positions -> InitialWeights]] : weight = Tril(w)
    /\ \E b \in Biases : bias = [o \in Positions |-> b]
    /\ mixer \in {[w |-> 2, b |-> 1], [w |-> -1, b |-> 0]}
    /\ x1 = <<>> /\ x2 = <<>> /\ y1 = <<>> /\ y2 = <<>>
    /\ clpc = "idle"

Inputs(T) == [1..T -> Activations]

CausalNext ==
    \/ \E T \in 0..ContextSize : \E a \in Inputs(T), b \in Inputs(T) : ForwardPair(a, b)
    \/ ForwardDone
    \/ \E d \in [Positions -> OutputGrads], x \in [Positions -> Activations] : TrainStep(d, x)

(***************************************************************************)
(* LinearLM.generate                                                       *)
(***************************************************************************)
TokenIds == {0, 1}

\* idx used whole
Whole(row, size) == row

\* idx[:, -context_size:]
LastTokens(row, size) ==
    IF Len(row) <= size THEN row ELSE SubSeq(row, Len(row) - size + 1, Len(row))

OutsideGenerate == UNCHANGED <<advars, ngvars, tkvars, clvars, rsvars, bdvars, trvars>>

\* one iteration of the loop: forward on idx_cond, sample, torch.cat
GenerateStep ==
    /\ gnpc = "loop"
    /\ it < max_new_tokens
    /\ LET idx_cond == LastTokens(idx, ContextSize)
           T        == Len(idx_cond)
       IN /\ fed' = IF T > fed THEN T ELSE fed
          /\ IF T > ContextSize
             THEN \* forward: assert T <= self.config.context_size
                  /\ gnpc' = "assert"
                  /\ UNCHANGED <<idx, it>>
             ELSE IF T = 0
             THEN \* logits[:,-1,:] on an empty time dimension
                  /\ gnpc' = "indexerror"
                  /\ UNCHANGED <<idx, it>>
             ELSE /\ \E idx_next \in TokenIds : idx' = Append(idx, idx_next)
                  /\ it' = it + 1
                  /\ gnpc' = "loop"
    /\ UNCHANGED <<prompt, max_new_tokens>>
    /\ OutsideGenerate

\* return idx
GenerateReturn ==
    /\ gnpc = "loop"
    /\ it = max_new_tokens
    /\ gnpc' = "returned"
    /\ UNCHANGED <<prompt, max_new_tokens, idx, it, fed>>
    /\ OutsideGenerate

\* no call
GenerateOff ==
    /\ prompt = <<>> /\ max_new_tokens = 0 /\ idx = <<>>
    /\ it = 0 /\ fed = 0
    /\ gnpc = "off"

\* generate(idx, max_new_tokens) has been called
GenerateInit ==
    /\ prompt \in UNION {[1..T0 -> TokenIds] : T0 \in 0..MaxPrompt}
    /\ max_new_tokens \in 0..MaxNewTokens
    /\ idx = prompt
    /\ it = 0 /\ fed = 0
    /\ gnpc = "loop"

GenerateNext ==
    \/ GenerateStep
    \/ GenerateReturn

(***************************************************************************)
(* rstiefel: sampling the Stiefel manifold with Newton-Schulz iteration    *)
(*                                                                         *)
(* A float is modelled in fixed point: the integer v stands for v / Unit.  *)
(* A matrix is a sequence of rows; an array object has an identity, a      *)
(* shape and its elements in row-major order.                              *)
(***************************************************************************)
Unit == 64

Shapes == UNION {[1..r -> 0..MaxExtent] : r \in 0..MaxRank}

Gains == {1, 2}

Seeds == {0, 3}

\* the element of a one-element set.  A local variable of the code is bound
\* as x \in {e}, so that its value is computed once
The(S) == CHOOSE x \in S : TRUE

RECURSIVE Product(_)
Product(shape) == IF shape = <<>> THEN 1 ELSE Head(shape) * Product(Tail(shape))

\* a.ndim, a.size
Ndim(arr) == Len(arr.shape)
Size(arr) == Product(arr.shape)

NoArray == [id |-> 0, shape |-> <<>>, data |-> <<>>]

\* np.zeros(shape)
Zeros(id, shape) == [id |-> id, shape |-> shape, data |-> [i \in 1..Product(shape) |-> 0]]

\* the generator: the sample drawn in state g, a whole number of standard
\* deviations, and the state after n samples
RngPeriod == 7
Sample(g) == ((5 * g + 3) % RngPeriod) - 3
Advance(g, n) == (g + n) % RngPeriod

\* np.random.normal(size=(nrows, ncols), scale=1.0, loc=0.0)
Normal(g, nrows, ncols) ==
    [i \in 1..nrows |-> [j \in 1..ncols |-> Unit * Sample(g + (i - 1) * ncols + (j - 1))]]

Rows(X) == Len(X)
Cols(X) == IF X = <<>> THEN 0 ELSE Len(X[1])

\* X.T
Transpose(X) == [j \in 1..Cols(X) |-> [i \in 1..Rows(X) |-> X[i][j]]]

RECURSIVE SumTerms(_, _)
SumTerms(f, n) == IF n = 0 THEN 0 ELSE f[n] + SumTerms(f, n - 1)

\* X @ Y, without rescaling: the entries are in units of 1 / Unit ^ 2
MatMul(X, Y) ==
    [i \in 1..Rows(X) |-> [j \in 1..Cols(Y) |->
        SumTerms([l \in 1..Cols(X) |-> X[i][l] * Y[l][j]], Cols(X))]]

\* the largest r with r * r <= n, for lo * lo <= n < hi * hi
RECURSIVE SqrtBetween(_, _, _)
SqrtBetween(n, lo, hi) ==
    IF hi - lo <= 1 THEN lo
    ELSE LET mid == (lo + hi) \div 2
         IN IF mid * mid <= n THEN SqrtBetween(n, mid, hi) ELSE SqrtBetween(n, lo, mid)

\* np.linalg.norm(A, ord='fro')
Frobenius(A) ==
    LET sq == SumTerms([i \in 1..Rows(A) |->
                  SumTerms([j \in 1..Cols(A) |-> A[i][j] * A[i][j]], Cols(A))], Rows(A))
        ab == SumTerms([i \in 1..Rows(A) |->
                  SumTerms([j \in 1..Cols(A) |-> Abs(A[i][j])], Cols(A))], Rows(A))
    IN SqrtBetween(sq, 0, ab + 1)

\* X = A / (eps + norm): eps = 1e-9 is below the resolution and only keeps
\* the division defined when A is zero
Normalise(A) ==
    The({[i \in 1..Rows(A) |-> [j \in 1..Cols(A) |->
             IF nrm = 0 THEN 0 ELSE RoundDiv(Abs(A[i][j]) * Unit, nrm) * Sign(A[i][j])]]
         : nrm \in {Frobenius(A)}})

\* 1.5 * X - 0.5 * P, for P = X @ X.T @ X in units of 1 / Unit ^ 3
Combine(X, P) ==
    [i \in 1..Rows(X) |-> [j \in 1..Cols(X) |->
        LET v == 3 * X[i][j] * Unit * Unit - P[i][j]
        IN RoundDiv(Abs(v), 2 * Unit * Unit) * Sign(v)]]

\* X = 1.5 * X - 0.5 * X @ X.T @ X
NewtonSchulzStep(X) ==
    The({Combine(X, P) : P \in {MatMul(XXt, X) : XXt \in {MatMul(X, Transpose(X))}}})

RECURSIVE Iterate(_, _)
Iterate(X, n) ==
    IF n = 0 THEN X ELSE The({Iterate(Y, n - 1) : Y \in {NewtonSchulzStep(X)}})

\* newton_schulz(A, n_steps)
newton_schulz(A, n_steps) == The({Iterate(X, n_steps) : X \in {Normalise(A)}})

\* the array object holding matrix X
FromMatrix(id, X) ==
    [id    |-> id,
     shape |-> <<Rows(X), Cols(X)>>,
     data  |-> [e \in 1..(Rows(X) * Cols(X)) |->
                   X[((e - 1) \div Cols(X)) + 1][((e - 1) % Cols(X)) + 1]]]

\* return gain * x
Scaled(cl, arr, g, nrows, ncols, x) ==
    [status  |-> "returned",
     out     |-> FromMatrix(arr.id + 1,
                    [i \in 1..nrows |-> [j \in 1..ncols |-> cl.gain * x[i][j]]]),
     rng     |-> Advance(g, nrows * ncols),
     ns_runs |-> 1]

\* from "flattened dims" to the end of the initializer
Sampled(cl, arr, g) ==
    LET nrows == arr.shape[1]
        ncols == Size(arr) \div nrows
    IN The({Scaled(cl, arr, g, nrows, ncols, x) :
              x \in {IF nrows < ncols THEN Transpose(x0) ELSE x0 :
                 x0 \in {newton_schulz(flattened, cl.n_steps) :
                    flattened \in {IF nrows < ncols
                                    THEN Transpose(Normal(g, nrows, ncols))
                                    ELSE Normal(g, nrows, ncols)}}}})

\* an initializer without the test of a.size: a.size // nrows divides by 0
\* when the first extent is 0
initializer_without_size_test(cl, arr, g) ==
    IF Ndim(arr) < 2
    THEN [status |-> "ValueError", out |-> NoArray, rng |-> g, ns_runs |-> 0]
    ELSE IF arr.shape[1] = 0
    THEN [status |-> "ZeroDivisionError", out |-> NoArray, rng |-> g, ns_runs |-> 0]
    ELSE IF Size(arr) = 0
    THEN [status  |-> "returned",
          out     |-> FromMatrix(arr.id + 1, [i \in 1..arr.shape[1] |-> <<>>]),
          rng     |-> g,
          ns_runs |-> 1]
    ELSE Sampled(cl, arr, g)

\* initializer(a) in generator state g: how the call ends, the object it
\* returns, the generator state it leaves and the newton_schulz calls it made
initializer(cl, arr, g) ==
    IF Ndim(arr) < 2
    THEN [status |-> "ValueError", out |-> NoArray, rng |-> g, ns_runs |-> 0]
    ELSE IF Size(arr) = 0
    THEN [status |-> "returned", out |-> arr, rng |-> g, ns_runs |-> 0]
    ELSE Sampled(cl, arr, g)

OutsideRstiefel == UNCHANGED <<advars, ngvars, tkvars, clvars, gnvars, bdvars, trvars>>

\* tmp = np.zeros(shape)
NewArray(shape) ==
    /\ rspc = "ready"
    /\ tmp' = Zeros(1, shape)
    /\ rspc' = "array"
    /\ UNCHANGED <<closure, rng, init_w, ns_runs>>
    /\ OutsideRstiefel

\* w = init_fn(tmp)
Initializer ==
    /\ rspc = "array"
    /\ \E r \in {initializer(closure, tmp, rng)} :
          /\ rspc' = r.status
          /\ init_w' = r.out
          /\ rng' = r.rng
          /\ ns_runs' = r.ns_runs
    /\ UNCHANGED <<closure, tmp>>
    /\ OutsideRstiefel

\* the caller drops tmp and w
Discard ==
    /\ rspc \in {"returned", "ValueError", "ZeroDivisionError"}
    /\ rspc' = "ready"
    /\ tmp' = NoArray
    /\ init_w' = NoArray
    /\ ns_runs' = 0
    /\ UNCHANGED <<closure, rng>>
    /\ OutsideRstiefel

\* rstiefel has not been called
RstiefelOff ==
    /\ closure = [gain |-> 0, n_steps |-> 0]
    /\ rng = 0
    /\ tmp = NoArray /\ init_w = NoArray
    /\ ns_runs = 0
    /\ rspc = "off"

\* init_fn = rstiefel(gain, n_steps)
RstiefelInit ==
    /\ closure \in [gain : Gains, n_steps : 0..MaxSteps]
    /\ rng \in Seeds
    /\ tmp = NoArray /\ init_w = NoArray
    /\ ns_runs = 0
    /\ rspc = "ready"

RstiefelNext ==
    \/ \E shape \in Shapes : NewArray(shape)
    \/ Initializer
    \/ Discard

(***************************************************************************)
(* build_dataset of the RNN / LSTM notebooks                               *)
(***************************************************************************)
Letters == {"a", "b"}

\* the letters in sorted order
LetterOrder == <<"a", "b">>

Names == UNION {[1..len -> Letters] : len \in 0..MaxWordLen}

\* file.read().splitlines(): at least one name
WordLists == UNION {[1..n -> Names] : n \in 1..MaxWords}

RECURSIVE Join(_)
\* ''.join(words)
Join(ws) == IF ws = <<>> THEN <<>> ELSE Head(ws) \o Join(Tail(ws))

\* chars = ['>'] + sorted(list(set(''.join(words)))) + ['<']
Vocabulary(ws) ==
    <<">">> \o SelectSeq(LetterOrder, LAMBDA c : c \in Range(Join(ws))) \o <<"<">>

\* s_to_i = {s:i for i,s in enumerate(chars)}
SToI(cs) == CharacterToIndex(EmptyDict, Enumerate(cs))

\* torch.tensor([len(w) for w in words]).max()
MaxWordLength(ws) == Max({Len(ws[i]) : i \in DOMAIN ws})

\* [s_to_i[ch] for ch in '>'+w+'<']
EncodeWord(dict, word) ==
    LET s == <<">">> \o word \o <<"<">>
    IN [i \in DOMAIN s |-> dict[s[i]]]

\* "if" in the place of "while": at most one end token is added
PadOnce(v, n, tok) == IF Len(v) < n THEN Append(v, tok) ELSE v

\* while len(v) < n: v += [tok]
RECURSIVE Pad_to(_, _, _)
Pad_to(v, n, tok) == IF Len(v) < n THEN Pad_to(Append(v, tok), n, tok) ELSE v

\* the loop over the words: X
Rows_of(ws, dict, maxlen) ==
    [i \in DOMAIN ws |-> Pad_to(EncodeWord(dict, ws[i]), maxlen + 2, dict["<"])]

\* random.shuffle(words): some rearrangement of the list
Shuffles(n) == {p \in [1..n -> 1..n] : \A i \in 1..n : \E j \in 1..n : p[j] = i}

\* int(0.8 * n), int(0.9 * n)
N1(n) == (8 * n) \div 10
N2(n) == (9 * n) \div 10

OutsideDataset == UNCHANGED <<advars, ngvars, tkvars, clvars, gnvars, rsvars, trvars>>

\* the cells that build chars, s_to_i and max_word_length
BuildVocabulary ==
    /\ bdpc = "read"
    /\ chars' = Vocabulary(words)
    /\ s_to_i' = SToI(Vocabulary(words))
    /\ max_word_length' = MaxWordLength(words)
    /\ bdpc' = "vocab"
    /\ UNCHANGED <<words, X_list, splits>>
    /\ OutsideDataset

\* Xtr, Xdev, Xte = build_dataset(words)
build_dataset ==
    /\ bdpc = "vocab"
    /\ \E p \in Shuffles(Len(words)) :
         LET shuffled == [i \in DOMAIN words |-> words[p[i]]]
             X        == Rows_of(shuffled, s_to_i, max_word_length)
             n        == Len(shuffled)
         IN /\ words' = shuffled
            /\ X_list' = X
            /\ splits' = [Xtr  |-> SubSeq(X, 1, N1(n)),
                          Xdev |-> SubSeq(X, N1(n) + 1, N2(n)),
                          Xte  |-> SubSeq(X, N2(n) + 1, n)]
    /\ bdpc' = "built"
    /\ UNCHANGED <<chars, s_to_i, max_word_length>>
    /\ OutsideDataset

\* the notebook has not been run
DatasetOff ==
    /\ words = <<>> /\ chars = <<>> /\ s_to_i = EmptyDict
    /\ max_word_length = 0
    /\ X_list = <<>>
    /\ splits = [Xtr |-> <<>>, Xdev |-> <<>>, Xte |-> <<>>]
    /\ bdpc = "off"

\* the names have been read
DatasetInit ==
    /\ words \in WordLists
    /\ chars = <<>> /\ s_to_i = EmptyDict
    /\ max_word_length = 0
    /\ X_list = <<>>
    /\ splits = [Xtr |-> <<>>, Xdev |-> <<>>, Xte |-> <<>>]
    /\ bdpc = "read"

DatasetNext ==
    \/ BuildVocabulary
    \/ build_dataset

(***************************************************************************)
(* The micrograd training loop, for n = MLP(1, nouts) with layers of one    *)
(* neuron                                                                  *)
(*                                                                         *)
(* The nodes of an iteration's graph are garbage once ypred and loss are   *)
(* rebound: the arena holds the parameters and the graph of the current    *)
(* iteration.                                                              *)
(***************************************************************************)
ParamVals == {-1, 1}
XVals == {1, 2}
YVals == {-4, 3}

\* the networks and the sizes of their training sets: nouts of MLP(1, nouts)
\* and num_train
Setups == {[nouts |-> <<1, 1>>, num_train |-> 1],
           [nouts |-> <<1>>,    num_train |-> 1],
           [nouts |-> <<1>>,    num_train |-> 2]}

TrainingData(n) == [1..n -> XVals \X YVals]

\* the operations of Value as functions of the arena: the arena after the
\* call, whose last node is the result
PushAdd(ns, s, o) == Append(ns, AddOut(ns, s, o))
PushAddNum(ns, s, c) ==
    The({Append(n1, AddOut(n1, s, Len(n1))) : n1 \in {Append(ns, Value(c, <<>>, ""))}})
PushMul(ns, s, o) == Append(ns, MulOut(ns, s, o))
PushMulNum(ns, s, c) ==
    The({Append(n1, MulOut(n1, s, Len(n1))) : n1 \in {Append(ns, Value(c, <<>>, ""))}})
PushPow(ns, s, deg) == Append(ns, PowOut(ns, s, deg))
PushSin(ns, s) == Append(ns, SinOut(ns, s))

\* Neuron.__call__ for nin = 1: sum((wi*xi ...), self.b), which is
\* self.b + wi*xi; xi is a plain number in the first layer
NeuronCall(ns, wi, b, xi, plain) ==
    The({PushAdd(n1, b, Len(n1)) :
           n1 \in {IF plain THEN PushMulNum(ns, wi, xi) ELSE PushMul(ns, wi, xi)}})

\* MLP.__call__ from layer l on: every layer but the last is followed by
\* sin; layer l holds the parameters ps[2l-1] (w) and ps[2l] (b)
RECURSIVE MLPCall(_, _, _, _, _)
MLPCall(ns, ps, l, xi, plain) ==
    IF 2 * l = Len(ps)
    THEN NeuronCall(ns, ps[2 * l - 1], ps[2 * l], xi, plain)
    ELSE The({MLPCall(n2, ps, l + 1, Len(n2), FALSE) :
                n2 \in {PushSin(n1, Len(n1)) :
                   n1 \in {NeuronCall(ns, ps[2 * l - 1], ps[2 * l], xi, plain)}}})

\* ypred = [n([x])[0] for x in xs], from the i-th x on
RECURSIVE Predict(_, _, _, _)
Predict(st, ps, inputs, i) ==
    IF i > Len(inputs) THEN st
    ELSE The({Predict([ns |-> n1, ypred |-> Append(st.ypred, Len(n1))], ps, inputs, i + 1) :
                n1 \in {MLPCall(st.ns, ps, 1, inputs[i], TRUE)}})

\* (yout - ygt) ** 2, where yout - ygt is yout + (-ygt)
SquaredError(ns, yout, ygt) ==
    The({PushPow(n1, Len(n1), 2) : n1 \in {PushAddNum(ns, yout, -ygt)}})

\* sum(...): 0 + the first term, which is term + 0, then acc + term
RECURSIVE SumTerms_of(_, _, _, _, _)
SumTerms_of(ns, acc, ypred, targets, i) ==
    IF i > Len(ypred) THEN [ns |-> ns, acc |-> acc]
    ELSE The({SumTerms_of(n2, Len(n2), ypred, targets, i + 1) :
                n2 \in {IF acc = 0 THEN PushAddNum(n1, Len(n1), 0)
                                   ELSE PushAdd(n1, acc, Len(n1)) :
                   n1 \in {SquaredError(ns, ypred[i], targets[i])}}})

\* the forward pass: ypred and loss = 1/num_train * sum(...)
ForwardPass(ns, ps, inputs, targets) ==
    The({PushMulNum(st2.ns, st2.acc, RoundDiv(1, Len(inputs))) :
           st2 \in {SumTerms_of(st1.ns, 0, st1.ypred, targets, 1) :
              st1 \in {Predict([ns |-> SubSeq(ns, 1, Len(ps)), ypred |-> <<>>],
                               ps, inputs, 1)}}})

\* for p in n.parameters(): (nothing)
KeepGrads(ns, ps) == ns

\* for p in n.parameters(): p.grad = 0.0
ZeroGrads(ns, ps) ==
    [i \in DOMAIN ns |-> IF i \in Range(ps) THEN [ns[i] EXCEPT !.grad = 0] ELSE ns[i]]

\* for node in reversed(topo): node._backward()
RECURSIVE RunAll(_, _, _)
RunAll(ns, tp, left) ==
    IF left = 0 THEN ns
    ELSE The({RunAll(n1, tp, left - 1) : n1 \in {RunBackward(ns, ReversedOrder(tp, left))}})

\* r.backward(), as a whole
backward(ns, r, desc) ==
    The({RunAll(SeedGrad(ns, r), st.topo, Len(st.topo)) :
           st \in {build_topo(ns, r, [visited |-> {}, topo |-> <<>>], desc)}})

\* -0.1 * g
LearningRateStep(g) == -RoundDiv(g, 10)

\* for p in n.parameters(): p.data += -0.1 * p.grad
UpdateParameters(ns, ps) ==
    [i \in DOMAIN ns |->
        IF i \in Range(ps) THEN [ns[i] EXCEPT !.data = @ + LearningRateStep(ns[i].grad)]
        ELSE ns[i]]

OutsideTraining ==
    /\ UNCHANGED <<pc, root, topo, visited, k, ran, seeded, calls, ret, exc, dropped>>
    /\ UNCHANGED <<ngvars, tkvars, clvars, gnvars, rsvars, bdvars>>

\* ypred = ...; loss = ...
TrainForward ==
    /\ trpc = "forward"
    /\ epoch < MaxEpochs
    /\ \E ns \in {ForwardPass(nodes, params, xs, ys)} :
          /\ nodes' = ns
          /\ loss' = Len(ns)
    /\ log' = <<"forward">>
    /\ trpc' = "zero"
    /\ UNCHANGED <<params, xs, ys, epoch>>
    /\ OutsideTraining

\* for p in n.parameters(): p.grad = 0.0
TrainZeroGrad ==
    /\ trpc = "zero"
    /\ nodes' = ZeroGrads(nodes, params)
    /\ log' = Append(log, "zero")
    /\ trpc' = "backward"
    /\ UNCHANGED <<params, xs, ys, loss, epoch>>
    /\ OutsideTraining

\* loss.backward()
TrainBackward ==
    /\ trpc = "backward"
    /\ \E desc \in SUBSET {v \in DOMAIN nodes : Cardinality(nodes[v].prev) > 1} :
          nodes' = backward(nodes, loss, desc)
    /\ log' = Append(log, "backward")
    /\ trpc' = "update"
    /\ UNCHANGED <<params, xs, ys, loss, epoch>>
    /\ OutsideTraining

\* for p in n.parameters(): p.data += -0.1 * p.grad; the next k
TrainUpdate ==
    /\ trpc = "update"
    /\ nodes' = UpdateParameters(nodes, params)
    /\ log' = Append(log, "update")
    /\ epoch' = epoch + 1
    /\ trpc' = "forward"
    /\ UNCHANGED <<params, xs, ys, loss>>
    /\ OutsideTraining

\* no network
TrainOff ==
    /\ params = <<>> /\ xs = <<>> /\ ys = <<>>
    /\ loss = 0 /\ epoch = 0
    /\ log = <<>>
    /\ trpc = "off"

\* n = MLP(1, nouts) and the training data, before the training loop
TrainInit ==
    /\ \E setup \in Setups :
          /\ params = [i \in 1..(2 * Len(setup.nouts)) |-> i]
          /\ \E vals \in [1..(2 * Len(setup.nouts)) -> ParamVals] :
                nodes = [i \in DOMAIN vals |-> Value(vals[i], <<>>, "")]
          /\ \E data \in TrainingData(setup.num_train) :
                /\ xs = [i \in DOMAIN data |-> data[i][1]]
                /\ ys = [i \in DOMAIN data |-> data[i][2]]
    /\ loss = 0 /\ epoch = 0
    /\ log = <<>>
    /\ trpc = "forward"
    /\ pc = "idle" /\ root = 0 /\ topo = <<>> /\ visited = {}
    /\ k = 0 /\ ran = <<>> /\ seeded = <<>> /\ calls = 0
    /\ ret = 0 /\ exc = NoException /\ dropped = <<>>

TrainNext ==
    \/ TrainForward
    \/ TrainZeroGrad
    \/ TrainBackward
    \/ TrainUpdate

(***************************************************************************)
(* Value.sigmoid, and Value.__pow__ with an exponent that is a Value       *)
(***************************************************************************)
\* assert(t): the assertion of a tuple fails only for the empty tuple
AssertTuple(t) == Len(t) > 0

\* isinstance(deg, (int, float)), from the type of deg
IsIntOrFloat(type) == type \in {"int", "float"}

\* t = 1 / 1-math.exp(-x), which is (1 / 1) - math.exp(-x)
SigmoidOut(ns, s) ==
    LET x == ns[s].data
        t == RoundDiv(1, 1) - MathExp(-x)
    IN WithBackward(Value(t, <<s>>, "sigm"), "sigm", s, 0, 0, t)

\* self.sigmoid(): the node is created and the method ends without a return
\* statement, so the call gives None and no reference to the node is left
Sigmoid(s) ==
    /\ Idle
    /\ MathExpDefined(-nodes[s].data)
    /\ ret' = 0
    /\ exc' = NoException
    /\ dropped' = <<SigmoidOut(nodes, s)>>
    /\ UNCHANGED nodes
    /\ BackwardVarsUnchanged

\* self ** deg for deg a Value: after the assert, self.data ** deg raises
\* TypeError, as Value defines no __rpow__
PowValue(s, o) ==
    /\ Idle
    /\ IF AssertTuple(<<IsIntOrFloat("Value"), "only supports powers that are int or float">>)
       THEN Raises("TypeError", "**", "Value")
       ELSE Raises("AssertionError", "**", "Value")
    /\ UNCHANGED nodes
    /\ BackwardVarsUnchanged

OpsNext ==
    \/ ValueNext
    \/ \E s \in Ids : Sigmoid(s)
    \/ \E s \in Ids, o \in Ids : PowValue(s, o)

(***************************************************************************)
(* Specifications                                                          *)
(***************************************************************************)
Init == ValueInit /\ NGramOff /\ TokenizerOff /\ CausalOff /\ GenerateOff /\ RstiefelOff /\ DatasetOff /\ TrainOff

Next == ValueNext

Spec == Init /\ [][Next]_vars

InitNGram == ValueInit /\ NGramInit /\ TokenizerOff /\ CausalOff /\ GenerateOff /\ RstiefelOff /\ DatasetOff /\ TrainOff

SpecNGram == InitNGram /\ [][NGramNext]_vars

InitTok == ValueInit /\ NGramOff /\ TokenizerInit /\ CausalOff /\ GenerateOff /\ RstiefelOff /\ DatasetOff /\ TrainOff

SpecTok == InitTok /\ [][TokenizerNext]_vars

InitCausal == ValueInit /\ NGramOff /\ TokenizerOff /\ CausalInit /\ GenerateOff /\ RstiefelOff /\ DatasetOff /\ TrainOff

SpecCausal == InitCausal /\ [][CausalNext]_vars

InitGen == ValueInit /\ NGramOff /\ TokenizerOff /\ CausalOff /\ GenerateInit /\ RstiefelOff /\ DatasetOff /\ TrainOff

SpecGen == InitGen /\ [][GenerateNext]_vars

InitStiefel == ValueInit /\ NGramOff /\ TokenizerOff /\ CausalOff /\ GenerateOff /\ RstiefelInit /\ DatasetOff /\ TrainOff

SpecStiefel == InitStiefel /\ [][RstiefelNext]_vars

InitDataset == ValueInit /\ NGramOff /\ TokenizerOff /\ CausalOff /\ GenerateOff /\ RstiefelOff /\ DatasetInit /\ TrainOff

SpecDataset == InitDataset /\ [][DatasetNext]_vars

InitTrain == NGramOff /\ TokenizerOff /\ CausalOff /\ GenerateOff /\ RstiefelOff /\ DatasetOff /\ TrainInit

SpecTrain == InitTrain /\ [][TrainNext]_vars

InitOps == ValueInit /\ NGramOff /\ TokenizerOff /\ CausalOff /\ GenerateOff /\ RstiefelOff /\ DatasetOff /\ TrainOff

SpecOps == InitOps /\ [][OpsNext]_vars

(***************************************************************************)
(* Properties of the autodiff engine                                       *)
(***************************************************************************)
RECURSIVE Closure(_, _)
Closure(ns, S) ==
    LET S2 == S \cup UNION {ns[v].prev : v \in S}
    IN IF S2 = S THEN S ELSE Closure(ns, S2)

\* the nodes reachable from r through _prev
Reach(r) == Closure(nodes, {r})

\* every grad was 0 when backward() was entered
Fresh == \A i \in DOMAIN seeded : seeded[i] = 0

\* the operand in slot 1 or 2 of node c (0: no such slot)
Operand(c, slot) ==
    CASE nodes[c].rule = "none" -> 0
      [] nodes[c].rule \in {"add", "mul"} -> IF slot = 1 THEN nodes[c].self ELSE nodes[c].other
      [] OTHER -> IF slot = 1 THEN nodes[c].self ELSE 0

Operands(c) == {Operand(c, 1), Operand(c, 2)} \ {0}

\* the partial derivative of node c with respect to its operand slot
Partial(c, slot) ==
    LET a == nodes[Operand(c, 1)].data
    IN CASE nodes[c].op = "+"    -> 1
         [] nodes[c].op = "*"    -> nodes[Operand(c, 3 - slot)].data
         [] nodes[c].op = "**"   -> IF nodes[c].deg = 0 THEN 0
                                    ELSE nodes[c].deg * IntPow(a, nodes[c].deg - 1)
         [] nodes[c].op = "relu" -> IF a > 0 THEN 1 ELSE 0
         [] nodes[c].op = "tanh" -> 1 - nodes[c].data * nodes[c].data
         [] nodes[c].op = "sin"  -> MathCos(a)
         [] nodes[c].op = "cos"  -> -MathSin(a)
         [] nodes[c].op = "exp"  -> nodes[c].data
         [] OTHER -> 0

\* what consumer c contributes to the gradient of v, over both operand slots
Contribution(c, v) ==
    LET InSlot(slot) == IF Operand(c, slot) = v
                        THEN Partial(c, slot) * nodes[c].grad ELSE 0
    IN InSlot(1) + InSlot(2)

\* the contributions to v of the consumers 1..n
RECURSIVE ContributionsUpTo(_, _)
ContributionsUpTo(n, v) ==
    IF n = 0 THEN 0 ELSE Contribution(n, v) + ContributionsUpTo(n - 1, v)

ChainRuleSum(v) == ContributionsUpTo(Len(nodes), v)

\* C1: after root.backward() on a graph whose grads were all 0, the root's
\* grad is 1 and the grad of every other reachable node is the sum, over its
\* consumers and their operand slots, of local partial derivative times the
\* consumer's final grad.
C1_ChainRule ==
    (pc = "done" /\ Fresh) =>
        /\ nodes[root].grad = 1
        /\ \A v \in Reach(root) \ {root} : nodes[v].grad = ChainRuleSum(v)

C1_Witness ==
    /\ pc = "done" /\ Fresh
    /\ Len(topo) = 3
    /\ \E v \in Reach(root) \ {root} :
         /\ Cardinality({c \in Ids : v \in nodes[c].prev}) = 2
         /\ nodes[v].grad # 0

IndexIn(seq, v) == CHOOSE i \in DOMAIN seq : seq[i] = v

\* C2: topo holds every node reachable from the root exactly once, every
\* operand at a smaller index than each of its consumers, the root last.
C2_TopoOrder ==
    (pc # "idle") =>
        /\ Range(topo) = Reach(root)
        /\ Cardinality(Range(topo)) = Len(topo)
        /\ \A i \in DOMAIN topo : \A p \in nodes[topo[i]].prev :
              \E j \in 1..(i - 1) : topo[j] = p
        /\ topo[Len(topo)] = root

C2_Witness ==
    /\ pc = "loop"
    /\ Len(topo) = 3
    /\ \E v \in Range(topo) : Cardinality({c \in Range(topo) : v \in nodes[c].prev}) = 2

\* C3: for y = x + x with all grads 0, after y.backward() x.grad is twice
\* y.grad although y._prev holds x once.
C3_SharedOperand ==
    (/\ pc = "done" /\ Fresh
     /\ nodes[root].op = "+"
     /\ nodes[root].self = nodes[root].other) =>
        /\ nodes[root].prev = {nodes[root].self}
        /\ nodes[nodes[root].self].grad = 2 * nodes[root].grad

C3_Witness ==
    /\ pc = "done" /\ Fresh
    /\ nodes[root].op = "+"
    /\ nodes[root].self = nodes[root].other
    /\ nodes[nodes[root].self].grad = 2

\* the expression below v uses only add, multiply and power by a constant
Polynomial(v) == \A u \in Reach(v) : nodes[u].op \in {"", "+", "*", "**"}

\* forward pass with the data of leaf l replaced by its data + h
RECURSIVE Eval(_, _, _)
Eval(v, l, h) ==
    CASE v = l -> nodes[v].data + h
      [] nodes[v].op = "+"  -> Eval(nodes[v].self, l, h) + Eval(nodes[v].other, l, h)
      [] nodes[v].op = "*"  -> Eval(nodes[v].self, l, h) * Eval(nodes[v].other, l, h)
      [] nodes[v].op = "**" -> IntPow(Eval(nodes[v].self, l, h), nodes[v].deg)
      [] OTHER -> nodes[v].data

\* the derivative of v with respect to leaf l: the difference quotient
\* (Eval(v, l, h) - Eval(v, l, 0)) / h to first order in h
RECURSIVE Derivative(_, _)
Derivative(v, l) ==
    CASE v = l -> 1
      [] nodes[v].op = "+"  -> Derivative(nodes[v].self, l) + Derivative(nodes[v].other, l)
      [] nodes[v].op = "*"  -> Derivative(nodes[v].self, l) * nodes[nodes[v].other].data
                               + nodes[nodes[v].self].data * Derivative(nodes[v].other, l)
      [] nodes[v].op = "**" -> IF nodes[v].deg = 0 THEN 0
                               ELSE nodes[v].deg
                                    * IntPow(nodes[nodes[v].self].data, nodes[v].deg - 1)
                                    * Derivative(nodes[v].self, l)
      [] OTHER -> 0

Steps == {1, 2, 3}

\* the difference quotient with step h differs from g by a multiple of h
\* (the truncation error of a polynomial)
FiniteDifferenceAgrees(v, l, g) ==
    \A h \in Steps : (Eval(v, l, h) - Eval(v, l, 0) - h * g) % (h * h) = 0

\* C4: for expressions built from add, multiply and power by a constant, the
\* gradient backward() leaves at each leaf is the derivative of the output
\* with respect to the leaf, which the finite difference approximates.
C4_GradientCheck ==
    (pc = "done" /\ Fresh /\ Polynomial(root)) =>
        \A l \in Reach(root) :
            nodes[l].op = "" =>
                /\ nodes[l].grad = Derivative(root, l)
                /\ FiniteDifferenceAgrees(root, l, nodes[l].grad)

C4_Witness ==
    /\ pc = "done" /\ Fresh /\ Polynomial(root)
    /\ Len(topo) = 3
    /\ \E l \in Reach(root) : nodes[l].op = "" /\ nodes[l].grad > 2

Invoked == {ran[i].node : i \in DOMAIN ran}

\* C5: root.grad is 1 before any rule runs; every reachable node's rule runs
\* exactly once, after the rules of all its consumers, so the grad it
\* propagates is final.
C5_ReverseOrder ==
    (pc # "idle") =>
        /\ (ran = <<>>) => nodes[root].grad = 1
        /\ (ran # <<>>) => ran[1].node = root
        /\ Cardinality(Invoked) = Len(ran)
        /\ Invoked \subseteq Reach(root)
        /\ \A i \in DOMAIN ran : \A c \in Reach(root) :
              ran[i].node \in nodes[c].prev => \E j \in 1..(i - 1) : ran[j].node = c
        /\ \A i \in DOMAIN ran : ran[i].grad = nodes[ran[i].node].grad
        /\ (pc = "done") => Invoked = Reach(root)

C5_Witness ==
    /\ pc = "done"
    /\ Len(ran) = 3
    /\ \E i \in DOMAIN ran :
         /\ Cardinality({c \in Ids : ran[i].node \in nodes[c].prev}) = 2
         /\ ran[i].grad > 1

\* the nodes a step has created
Created == (Len(nodes) + 1)..Len(nodes')

\* C6: an operator application creates a node whose _prev is the set of its
\* operands and whose grad is 0, and leaves data, grad and _prev of the
\* existing nodes unchanged; a plain-number operand becomes a new leaf.
C6_Construction ==
    [][Len(nodes') > Len(nodes) =>
         /\ \A i \in Ids :
               /\ nodes'[i].data = nodes[i].data
               /\ nodes'[i].grad = nodes[i].grad
               /\ nodes'[i].prev = nodes[i].prev
         /\ \A j \in Created :
               /\ nodes'[j].grad = 0
               /\ nodes'[j].prev = {nodes'[j].self, nodes'[j].other} \ {0}
               /\ nodes'[j].prev \subseteq 1..(j - 1)
               /\ (nodes'[j].op = "") = (nodes'[j].prev = {})
               /\ (nodes'[j].op \in {"+", "*"}) = (nodes'[j].other # 0)
         /\ Len(nodes') = Len(nodes) + 2 =>
               /\ nodes'[Len(nodes) + 1].op = ""
               /\ nodes'[Len(nodes')].op \in {"+", "*"}
               /\ nodes'[Len(nodes')].other = Len(nodes) + 1
               /\ nodes'[Len(nodes')].self \in Ids
    ]_vars

C6_Witness ==
    /\ pc = "idle"
    /\ Len(nodes) = 3
    /\ nodes[1].grad # 0
    /\ nodes[2].op = "" /\ nodes[2].data \in Nums
    /\ nodes[3].op = "*" /\ nodes[3].self = 1 /\ nodes[3].other = 2
    /\ nodes[3].grad = 0

(***************************************************************************)
(* Properties of the n-gram model                                          *)
(***************************************************************************)
\* np.exp(logprobs.get(key, -np.inf)), as a fraction
Probability(key) ==
    IF key \in DOMAIN ngram.logprobs THEN ngram.logprobs[key]
    ELSE [num |-> 0, den |-> 1]

\* the numerators of the probabilities of context + [w], w over vocab[1..i]
RECURSIVE NumeratorSum(_, _)
NumeratorSum(context, i) ==
    IF i = 0 THEN 0
    ELSE Probability(context \o <<ngram.vocab[i]>>).num + NumeratorSum(context, i - 1)

\* the probabilities of context + [w], w over the vocabulary, sum to 1:
\* the non-zero ones share the denominator den, and the numerators sum to den
SumsToOne(context, den) ==
    /\ den > 0
    /\ NumeratorSum(context, Len(ngram.vocab)) = den
    /\ \A i \in DOMAIN ngram.vocab :
          LET key == context \o <<ngram.vocab[i]>>
          IN key \in DOMAIN ngram.logprobs => ngram.logprobs[key].den = den

\* the counts of context + [w], w over vocab[1..i]
RECURSIVE ExtensionCount(_, _)
ExtensionCount(context, i) ==
    IF i = 0 THEN 0
    ELSE Get(ngram.counts, context \o <<ngram.vocab[i]>>) + ExtensionCount(context, i - 1)

\* the contexts of the claim: m-grams, m < n, of the training data that do
\* not end in '<E>'
Contexts ==
    {g \in DOMAIN ngram.counts :
        /\ Len(g) < ngram.n
        /\ g # <<"<Unk>">>
        /\ g[Len(g)] # "<E>"}

\* C7: once the counts are built, the unigram probabilities sum to 1 over
\* the vocabulary; for every context of the training data that does not end
\* in '<E>' the counts of its one-word extensions sum to the count of the
\* context, and the conditional probabilities given the context sum to 1.
C7_Normalised ==
    (ngpc \in {"cell", "fit"}) =>
        /\ SumsToOne(<<>>, SumUnigrams(ngram.counts))
        /\ (ngpc = "cell") =>
              \A i \in DOMAIN ngram.vocab : <<ngram.vocab[i]>> \in DOMAIN ngram.logprobs
        /\ \A g \in Contexts :
              /\ ExtensionCount(g, Len(ngram.vocab)) = ngram.counts[g]
              /\ SumsToOne(g, ngram.counts[g])

C7_Witness ==
    /\ ngpc = "fit"
    /\ ngram.n = 3
    /\ \E g \in Contexts :
          /\ Len(g) = 2
          /\ ngram.counts[g] = 2
          /\ Cardinality({w \in Range(ngram.vocab) : g \o <<w>> \in DOMAIN ngram.counts}) = 2

(***************************************************************************)
(* Properties of the tokenizer                                             *)
(***************************************************************************)
InVocabulary(t) == \A i \in DOMAIN t : t[i] \in Range(tokenizer.vocab)

\* C8: for a text whose characters all belong to the vocabulary, encode and
\* then decode raise no KeyError and return the text.
C8_RoundTrip ==
    /\ (tkpc = "decoded") => decoded = text
    /\ (tkpc = "keyerror") => ~InVocabulary(text)
    /\ (tkpc = "encoded") => Len(tokens) = Len(text)

C8_Witness ==
    /\ tkpc = "decoded"
    /\ Len(tokenizer.vocab) = 3
    /\ Len(text) = 3
    /\ Cardinality(Range(text)) = 2
    /\ decoded = text

(***************************************************************************)
(* Properties of the causal linear block                                   *)
(***************************************************************************)
AgreeUpTo(a, b, t) == \A j \in 1..t : a[j] = b[j]

LowerTriangular(w) == \A o \in Positions : \A i \in Positions : i > o => w[o][i] = 0

C10_Generate ==
    (gnpc # "off") =>
        /\ gnpc # "assert"
        /\ fed <= ContextSize
        /\ Len(idx) = Len(prompt) + it
        /\ SubSeq(idx, 1, Len(prompt)) = prompt
        /\ (gnpc = "returned") => Len(idx) = Len(prompt) + max_new_tokens

C10_Witness ==
    /\ gnpc = "returned"
    /\ Len(prompt) > ContextSize
    /\ max_new_tokens > 1
    /\ fed = ContextSize
    /\ Len(idx) = Len(prompt) + max_new_tokens

(***************************************************************************)
(* Properties of rstiefel                                                  *)
(***************************************************************************)
\* the step in which the initializer runs
InitializerRuns == rspc = "array" /\ rspc' # "array"

\* C11: the initializer raises ValueError for an array with fewer than 2
\* dimensions, and returns the input array itself, unchanged, when its size
\* is 0; in neither case is newton_schulz run or a random matrix drawn
C11_EarlyExits ==
    [][InitializerRuns =>
         /\ Ndim(tmp) < 2 =>
               /\ rspc' = "ValueError"
               /\ init_w' = NoArray
               /\ tmp' = tmp /\ ns_runs' = 0 /\ rng' = rng
         /\ (Ndim(tmp) >= 2 /\ Size(tmp) = 0) =>
               /\ rspc' = "returned"
               /\ init_w' = tmp
               /\ tmp' = tmp /\ ns_runs' = 0 /\ rng' = rng]_vars

\* an empty array of 2 or more dimensions has come back from the initializer
C11_Witness ==
    /\ rspc = "returned"
    /\ Ndim(tmp) >= 2 /\ Size(tmp) = 0
    /\ init_w = tmp

(***************************************************************************)
(* Properties of build_dataset                                             *)
(***************************************************************************)
\* the word that row v encodes is one of the words read
EncodesWord(v, word) ==
    /\ Len(word) + 2 <= Len(v)
    /\ v[1] = s_to_i[">"]
    /\ \A i \in 1..Len(word) : v[i + 1] = s_to_i[word[i]]
    /\ \A i \in (Len(word) + 2)..Len(v) : v[i] = s_to_i["<"]

\* after the first '<' every token of v is '<'
EndTokenAbsorbs(v) ==
    \A i \in DOMAIN v : v[i] = s_to_i["<"] => \A j \in i..Len(v) : v[j] = s_to_i["<"]

\* C12: build_dataset encodes every word as exactly max_word_length + 2
\* tokens: '>', the characters of the word in order, then '<' up to the end
\* (at least once); after the first '<' every token is '<'
C12_Padded ==
    bdpc = "built" =>
        /\ Len(X_list) = Len(words)
        /\ \A i \in DOMAIN X_list :
              /\ Len(X_list[i]) = max_word_length + 2
              /\ EncodesWord(X_list[i], words[i])
              /\ EndTokenAbsorbs(X_list[i])
        /\ splits.Xtr \o splits.Xdev \o splits.Xte = X_list

\* a word two characters shorter than the longest one has been padded
C12_Witness ==
    /\ bdpc = "built"
    /\ \E i \in DOMAIN words :
          /\ Len(words[i]) + 2 <= max_word_length
          /\ X_list[i][Len(X_list[i]) - 1] = s_to_i["<"]
          /\ X_list[i][Len(X_list[i])] = s_to_i["<"]

(***************************************************************************)
(* Properties of the training loop                                         *)
(***************************************************************************)
LoopOrder == <<"forward", "zero", "backward", "update">>

Prefix(s, t) == Len(s) <= Len(t) /\ \A i \in DOMAIN s : s[i] = t[i]

Parameters == Range(params)

\* C13: in every iteration of the training loop the steps occur in the order
\* forward pass, zero the grad of every parameter, loss.backward(), parameter
\* update; at each update every parameter's grad is the gradient of that
\* iteration's loss only, and each parameter is updated exactly once per
\* iteration, by -0.1 times its grad (to the nearest representable number)
C13_TrainingLoop ==
    [][/\ Prefix(log', LoopOrder)
       /\ trpc = "update" =>
             /\ log = <<"forward", "zero", "backward">>
             /\ nodes[loss].grad = 1
             /\ Parameters \subseteq Reach(loss)
             /\ \A v \in Reach(loss) \ {loss} : nodes[v].grad = ChainRuleSum(v)
             /\ \A p \in Parameters :
                   Abs(10 * (nodes'[p].data - nodes[p].data) + nodes[p].grad) <= 5
       /\ trpc # "update" =>
             \A p \in Parameters : nodes'[p].data = nodes[p].data]_vars

\* the second iteration has updated a parameter whose grad is not small
C13_Witness ==
    /\ epoch = 2
    /\ log = LoopOrder
    /\ \E p \in Parameters : Abs(nodes[p].grad) >= 5

(***************************************************************************)
(* Further properties of the autodiff engine                               *)
(***************************************************************************)
\* a step of backward(): it is entered, runs a _backward, or is left
BackwardStep == pc # "idle" \/ pc' # "idle"

\* the root of the backward() the step belongs to
StepRoot == IF pc = "idle" THEN root' ELSE root

\* C14: root.backward() changes only the grad fields of nodes reachable from
\* root: no node's data, _prev or _op changes (nor does any closure), and
\* every field of every node not reachable from root is left unchanged
C14_Frame ==
    [][BackwardStep =>
         /\ Len(nodes') = Len(nodes)
         /\ \A v \in Ids : [nodes'[v] EXCEPT !.grad = nodes[v].grad] = nodes[v]
         /\ \A v \in Ids \ Reach(StepRoot) : nodes'[v] = nodes[v]]_vars

\* backward() has run to its end next to a node it cannot reach
C14_Witness ==
    /\ pc = "done"
    /\ Ids \ Reach(root) # {}
    /\ \E v \in Reach(root) \ {root} : nodes[v].grad # seeded[v]

\* the length of the longest chain of operands below v
RECURSIVE Depth(_)
Depth(v) ==
    IF nodes[v].prev = {} THEN 0
    ELSE 1 + Max({Depth(c) : c \in nodes[v].prev})

\* C15: every graph built by Value operations is acyclic: the operands of a
\* node were all created before the node.  So below every root the chains of
\* operands are shorter than the number of nodes, which bounds the depth of
\* the recursion of build_topo; and when backward() has built topo, it has
\* visited exactly the nodes reachable from the root, each once
C15_Acyclic ==
    /\ \A v \in Ids : \A c \in nodes[v].prev : c \in 1..(v - 1)
    /\ \A r \in Ids : Depth(r) <= r - 1
    /\ pc # "idle" =>
          /\ visited = Reach(root)
          /\ Len(topo) = Cardinality(visited)

\* backward() has built topo for a root on top of a chain of two operations
C15_Witness ==
    /\ pc = "loop"
    /\ Len(topo) = 3
    /\ Depth(root) = 2

\* the node a step creates with operation op (0: none)
CreatedBy(op) ==
    IF Len(nodes') = Len(nodes) + 1 /\ nodes'[Len(nodes')].op = op
    THEN Len(nodes') ELSE 0

\* the node whose _backward the step runs (0: none)
RunsBackwardOf ==
    IF pc = "loop" /\ k' = k - 1 THEN topo[k] ELSE 0

\* C16: relu() produces a node whose data is x when the operand's data x > 0
\* and 0 otherwise; its backward rule adds out.grad to the operand's grad
\* when x > 0 and adds 0 when x <= 0
C16_Relu ==
    [][/\ CreatedBy("relu") # 0 =>
            LET out == CreatedBy("relu")
            IN \E s \in Ids :
                  /\ nodes'[out].prev = {s}
                  /\ nodes'[out].data = IF nodes[s].data > 0 THEN nodes[s].data ELSE 0
       /\ (RunsBackwardOf # 0 /\ nodes[RunsBackwardOf].op = "relu") =>
            LET out == RunsBackwardOf
            IN \E s \in Ids :
                  /\ nodes[out].prev = {s}
                  /\ nodes'[s].grad = nodes[s].grad +
                        (IF nodes[s].data > 0 THEN nodes[out].grad ELSE 0)
                  /\ \A v \in Ids \ {s} : nodes'[v] = nodes[v]]_vars

\* the backward rule of a relu of 0 has run with a grad to pass on
C16_Witness ==
    /\ pc \in {"loop", "done"}
    /\ \E i \in DOMAIN ran :
          /\ nodes[ran[i].node].op = "relu"
          /\ nodes[nodes[ran[i].node].self].data = 0
          /\ ran[i].grad # 0

NumberTypes == {"int", "float"}

\* C17: Value.__pow__ only supports exponents that are int or float: raising
\* a Value to an exponent of any other type fails the assertion, and no new
\* node is created
C17_PowAsserts ==
    [][(exc' # exc /\ exc'.op = "**" /\ exc'.operand \notin NumberTypes) =>
         /\ exc'.type = "AssertionError"
         /\ nodes' = nodes
         /\ dropped' = <<>>]_vars

UnaryOps == {"relu", "tanh", "sigm", "sin", "cos", "exp"}

\* the step creates a node with operation op and keeps no reference to it
DroppedBy(op) == dropped' # dropped /\ dropped' # <<>> /\ dropped'[1].op = op

\* C18: sigmoid(), like relu, tanh, sin, cos and exp, returns the node it
\* creates, whose _prev is {self}
C18_UnaryReturns ==
    [][\A op \in UnaryOps :
         (CreatedBy(op) # 0 \/ DroppedBy(op)) =>
            /\ CreatedBy(op) # 0
            /\ ret' = CreatedBy(op)
            /\ \E s \in Ids : nodes'[ret'].prev = {s}]_vars


=============================================================================
